---- MODULE Spec2Model ----
(***************************************************************************)
(* Model of src/main.py: the poll loop of main() with its tracker state    *)
(* (seen_commentaries, highest_over_seen, last_sent_over), the helpers     *)
(* over_to_float and extract_result, fetch_page, and the notification job  *)
(* send_to_discord that main() submits to a ThreadPoolExecutor.  The score *)
(* of the page is not modelled.                                            *)
(*                                                                         *)
(* Specifications.  Spec and SpecFull are the loop over pages of many      *)
(* rows, with fetch_page and send_to_discord as single steps and without   *)
(* the clock.  SpecTimed is the loop with the clock, the throttle of lines *)
(* 125-129 and the attempts of fetch_page.  SpecWorker is the loop with    *)
(* the posts of send_to_discord and the two ways main() ends.              *)
(* SpecClassify is a call of extract_result.  Variables a specification    *)
(* does not use keep their initial values in it.                           *)
(*                                                                         *)
(* Texts.  An over text is a sequence of one-character strings over the    *)
(* alphabet 0-9 . - N / A x.  A commentary text is a sequence of cells;    *)
(* a cell is either one filler character or one word written as a single   *)
(* cell ("FOUR", "leg bye", ...).  Slicing [:50] keeps the first 50 cells. *)
(* Numbers are held in tenths (the over "49.2" is 492), so that over texts *)
(* with at most one fractional digit parse exactly; -1 is -10.  The words  *)
(* float() reads as nan or inf are outside the alphabet.                   *)
(***************************************************************************)
EXTENDS Integers, Sequences, FiniteSets, TLC

VARIABLES
    pc,                 \* position of main()'s loop
    cycle,              \* number of loop iterations started
    fetched,            \* number of rows on the page versions fetched so far
    discord_enabled,    \* config value read at line 106
    doc,                \* rows (over text, commentary text) of the fetched page
    row,                \* index of the next row of doc to evaluate
    seen_commentaries,  \* line 118
    highest_over_seen,  \* line 119
    last_sent_over,     \* line 120: <<>> is None, <<t>> is the text t
    new_commentaries,   \* line 164
    new_commentary_found, \* line 165
    jobs,               \* messages submitted to the executor and not yet finished
    admittedLog,        \* history: rows admitted, in admission order
    sentLog,            \* history: notifications dispatched, in order
    lastEval,           \* history: the last row evaluated and what became of it
    prev,               \* history: the cycle that ran before this one
    repeat,             \* history: this cycle's page is the previous cycle's
    now,                \* the clock time.time() reads
    last_fetch_time,    \* line 121
    attempt,            \* fetch_page: line 90
    retry_delay,        \* fetch_page: line 89
    fetchLog,           \* history: requests and sleeps of the current fetch_page call
    throttled,          \* history: what lines 125-129 did in the current cycle
    stopped_by,         \* what ended the loop (lines 211-214)
    token,              \* config value read at line 107
    channel_ids,        \* config value read at line 108
    sending,            \* send_to_discord: the message of the running call
    channel,            \* send_to_discord: index of the loop of line 37
    success,            \* send_to_discord: line 36
    posted,             \* history: the posts of the running call and their responses
    returned,           \* history: the return values of the finished calls
    classify            \* a call of extract_result: its argument and its return value

\* clock, throttle and fetch_page
timeVars == <<now, last_fetch_time, attempt, retry_delay, fetchLog, throttled,
              stopped_by>>

\* the worker thread running send_to_discord
sendVars == <<token, channel_ids, sending, channel, success, posted, returned>>

vars == <<pc, cycle, fetched, discord_enabled, doc, row, seen_commentaries,
          highest_over_seen, last_sent_over, new_commentaries,
          new_commentary_found, jobs, admittedLog, sentLog, lastEval, prev,
          repeat, timeVars, sendVars, classify>>

\* ----------------------------------------------------------------- bounds
\* rows on all the page versions of a run together
MaxRows == 3
\* loop iterations of a run
MaxCycles == 2

\* ------------------------------------------------------------------ texts
Min(a, b) == IF a < b THEN a ELSE b

Digit == {"0", "1", "2", "3", "4", "5", "6", "7", "8", "9"}

DigitVal(c) ==
    CASE c = "0" -> 0 [] c = "1" -> 1 [] c = "2" -> 2 [] c = "3" -> 3
      [] c = "4" -> 4 [] c = "5" -> 5 [] c = "6" -> 6 [] c = "7" -> 7
      [] c = "8" -> 8 [] c = "9" -> 9

RECURSIVE DigitsVal(_)
\* value of a sequence of digits read as a decimal integer
DigitsVal(s) ==
    IF s = <<>> THEN 0
    ELSE 10 * DigitsVal(SubSeq(s, 1, Len(s) - 1)) + DigitVal(s[Len(s)])

AllDigits(s) == \A i \in 1..Len(s) : s[i] \in Digit

\* the failure value of over_to_float, and the initial highest_over_seen: -1
NoOver == -10

\* float(s) for an unsigned decimal s with at most one fractional digit, in
\* tenths; <<FALSE, 0>> when float() raises ValueError
ParseUnsigned(s) ==
    LET dots == {i \in 1..Len(s) : s[i] = "."}
    IN  IF dots = {}
        THEN IF s # <<>> /\ AllDigits(s) THEN <<TRUE, 10 * DigitsVal(s)>>
             ELSE <<FALSE, 0>>
        ELSE IF Cardinality(dots) > 1 THEN <<FALSE, 0>>
        ELSE LET d == CHOOSE i \in dots : TRUE
                 ip == SubSeq(s, 1, d - 1)
                 fp == SubSeq(s, d + 1, Len(s))
             IN  IF AllDigits(ip) /\ AllDigits(fp) /\ Len(ip) + Len(fp) > 0
                    /\ Len(fp) <= 1
                 THEN <<TRUE, 10 * DigitsVal(ip) + DigitsVal(fp)>>
                 ELSE <<FALSE, 0>>

ParseFloat(s) ==
    IF s # <<>> /\ s[1] = "-"
    THEN LET p == ParseUnsigned(Tail(s)) IN <<p[1], 0 - p[2]>>
    ELSE ParseUnsigned(s)

\* the text parses as a number
IsNumber(s) == ParseFloat(s)[1]

over_to_float(over_num) ==
    IF ParseFloat(over_num)[1] THEN ParseFloat(over_num)[2] ELSE NoOver

\* str.lower() on one cell
LowerCell(c) ==
    CASE c = "FOUR" -> "four" [] c = "OUT" -> "out" [] c = "SIX" -> "six"
      [] OTHER -> c

Lower(text) == [i \in 1..Len(text) |-> LowerCell(text[i])]

\* the search strings of extract_result that occur inside a (lower-case) cell
Occurs(c) ==
    CASE c = "_" -> {}
      [] c = "wicket" -> {"wicket"}
      [] c = "out" -> {"out"}
      [] c = "about" -> {"out"}
      [] c = "no run" -> {"no run"}
      [] c = "1 run" -> {"1 run"}
      [] c = "2 runs" -> {"2 run"}
      [] c = "3 runs" -> {"3 run"}
      [] c = "four" -> {"four"}
      [] c = "4 runs" -> {"4 runs"}
      [] c = "six" -> {"six"}
      [] c = "6 runs" -> {"6 runs"}
      [] c = "wide" -> {"wide"}
      [] c = "no ball" -> {"no ball"}
      [] c = "bye" -> {"bye"}
      [] c = "leg bye" -> {"leg bye", "bye"}
      [] OTHER -> {}

\* Python's `pat in text`
In(pat, text) == \E i \in 1..Len(text) : pat \in Occurs(text[i])

\* extract_result with the tests of lines 74 and 76 in the other order
extract_result_LegByeFirst(commentary_text) ==
    LET text == Lower(commentary_text)
    IN  IF In("wicket", text) \/ In("out", text) THEN "wicket"
        ELSE IF In("no run", text) THEN "dot"
        ELSE IF In("1 run", text) THEN "1 run"
        ELSE IF In("2 run", text) THEN "2 runs"
        ELSE IF In("3 run", text) THEN "3 runs"
        ELSE IF In("four", text) \/ In("4 runs", text) THEN "4"
        ELSE IF In("six", text) \/ In("6 runs", text) THEN "6"
        ELSE IF In("wide", text) THEN "wide"
        ELSE IF In("no ball", text) THEN "no ball"
        ELSE IF In("leg bye", text) THEN "leg bye"
        ELSE IF In("bye", text) THEN "bye"
        ELSE "event"

extract_result(commentary_text) ==
    LET text == Lower(commentary_text)
    IN  IF In("wicket", text) \/ In("out", text) THEN "wicket"
        ELSE IF In("no run", text) THEN "dot"
        ELSE IF In("1 run", text) THEN "1 run"
        ELSE IF In("2 run", text) THEN "2 runs"
        ELSE IF In("3 run", text) THEN "3 runs"
        ELSE IF In("four", text) \/ In("4 runs", text) THEN "4"
        ELSE IF In("six", text) \/ In("6 runs", text) THEN "6"
        ELSE IF In("wide", text) THEN "wide"
        ELSE IF In("no ball", text) THEN "no ball"
        ELSE IF In("bye", text) THEN "bye"
        ELSE IF In("leg bye", text) THEN "leg bye"
        ELSE "event"

\* commentary_text[:50]
PrefixLen == 50

\* f"{over_num} - {commentary_text[:50]}"
commentary_id(over_num, commentary_text) ==
    over_num \o <<" - ">>
             \o SubSeq(commentary_text, 1, Min(PrefixLen, Len(commentary_text)))

\* ----------------------------------------------------------------- inputs
O1  == <<"1">>
O1d == <<"1", ".", "0">>
O2  == <<"2">>
OX  == <<"x">>
NA  == <<"N", "/", "A">>

\* 50 filler characters: a text whose words start after the [:50] slice
Pad == [i \in 1..PrefixLen |-> "_"]

\* the (over text, commentary text) pairs a page can pair up (lines 170-175)
Rows ==
    { [over |-> O1,  text |-> <<"FOUR">>],
      [over |-> O1d, text |-> <<"FOUR">>],
      [over |-> O2,  text |-> <<"six">>],
      [over |-> OX,  text |-> <<"wide">>],
      [over |-> NA,  text |-> <<"OUT">>],
      [over |-> O2,  text |-> Pad \o <<"six">>],
      [over |-> O2,  text |-> Pad \o <<"hello">>] }

\* the pages of at most n rows
Documents(n) == UNION {[1..k -> Rows] : k \in 0..n}

\* ------------------------------------------------------------------ state
None == <<>>
Some(t) == <<t>>

NoCycle == [ok |-> FALSE, doc |-> <<>>, evicted |-> FALSE]

NoEval == [valid |-> FALSE, row |-> [over |-> <<>>, text |-> <<>>],
           outcome |-> "none", cycle |-> 0, again |-> FALSE]

\* time.time() when main() starts: any value far above min_fetch_interval
Epoch == 10

\* line 122
min_fetch_interval == 3
\* line 134
FailureSleep == 5
\* line 88
max_retries == 3
\* line 89
FirstRetryDelay == 2

NoThrottle == [valid |-> FALSE, since |-> 0, slept |-> 0]

\* lines 121-122, and no fetch_page call yet
TimeIdle ==
    /\ now = Epoch
    /\ last_fetch_time = 0
    /\ attempt = 0
    /\ retry_delay = FirstRetryDelay
    /\ fetchLog = <<>>
    /\ throttled = NoThrottle
    /\ stopped_by = "none"

\* channel ids are texts of one-character strings, like over texts
ChanA == <<"7">>
ChanB == <<"8">>

\* a channel_ids value: a list of ids, or one str
ListOf(l) == [kind |-> "list", str |-> <<>>, list |-> l]
StrOf(t) == [kind |-> "str", str |-> t, list |-> <<>>]

\* the worker thread runs no call
SendIdle ==
    /\ sending = None
    /\ channel = 1
    /\ success = FALSE
    /\ posted = <<>>
    /\ returned = <<>>

\* lines 107-108: a token and two channels
Configured ==
    /\ token = <<"t">>
    /\ channel_ids = ListOf(<<ChanA, ChanB>>)

NoCall == [text |-> <<>>, result |-> "", done |-> FALSE]

\* lines 105-122 without the notifier's settings
Start ==
    /\ pc = "fetch"
    /\ cycle = 0
    /\ fetched = 0
    /\ discord_enabled \in BOOLEAN
    /\ doc = <<>>
    /\ row = 1
    /\ seen_commentaries = {}
    /\ highest_over_seen = NoOver
    /\ last_sent_over = None
    /\ new_commentaries = <<>>
    /\ new_commentary_found = FALSE
    /\ jobs = {}
    /\ admittedLog = <<>>
    /\ sentLog = <<>>
    /\ lastEval = NoEval
    /\ prev = NoCycle
    /\ repeat = FALSE
    /\ TimeIdle
    /\ SendIdle

Init == Start /\ Configured /\ classify = NoCall

\* ---------------------------------------------------------------- actions
\* FetchFail with the failure of the fetch raised into main()
FetchFail_Raises ==
    /\ pc = "fetch"
    /\ cycle < MaxCycles
    /\ cycle' = cycle + 1
    /\ prev' = NoCycle
    /\ repeat' = FALSE
    /\ pc' = "stopped"
    /\ stopped_by' = "fault"
    /\ UNCHANGED <<fetched, discord_enabled, doc, row, seen_commentaries,
                   highest_over_seen, last_sent_over, new_commentaries,
                   new_commentary_found, jobs, admittedLog, sentLog, lastEval,
                   now, last_fetch_time, attempt, retry_delay, fetchLog,
                   throttled, sendVars, classify>>

\* lines 131-135: fetch_page returned None; sleep 5 and continue
FetchFail ==
    /\ pc = "fetch"
    /\ cycle < MaxCycles
    /\ cycle' = cycle + 1
    /\ prev' = NoCycle
    /\ repeat' = FALSE
    /\ UNCHANGED <<pc, fetched, discord_enabled, doc, row, seen_commentaries,
                   highest_over_seen, last_sent_over, new_commentaries,
                   new_commentary_found, jobs, admittedLog, sentLog, lastEval>>
    /\ UNCHANGED <<timeVars, sendVars, classify>>

\* lines 131-165: fetch_page returned the page d; its rows are paired up
Fetched(d) ==
    /\ pc = "fetch"
    /\ cycle < MaxCycles
    /\ doc' = d
    /\ repeat' = (prev.ok /\ ~prev.evicted /\ prev.doc = d)
    /\ cycle' = cycle + 1
    /\ row' = 1
    /\ new_commentaries' = <<>>
    /\ new_commentary_found' = FALSE
    /\ pc' = "scan"
    /\ UNCHANGED <<discord_enabled, seen_commentaries, highest_over_seen,
                   last_sent_over, jobs, admittedLog, sentLog, lastEval, prev>>
    /\ UNCHANGED <<timeVars, sendVars, classify>>

\* the site serves a new version of the page
FetchOk ==
    \E d \in Documents(MaxRows - fetched) :
        /\ Fetched(d)
        /\ fetched' = fetched + Len(d)

\* the site serves the page of the previous cycle again
FetchUnchanged ==
    /\ prev.ok
    /\ Fetched(prev.doc)
    /\ UNCHANGED fetched

\* Outcome without the test of line 177
Outcome_NoSeenTest(r) ==
    IF extract_result(r.text) = "event" \/ r.over = NA THEN "filtered"
    ELSE IF over_to_float(r.over) > highest_over_seen THEN "admitted"
    ELSE IF over_to_float(r.over) < highest_over_seen THEN "below"
    ELSE "admitted"

\* Outcome without the test of line 185
Outcome_NoBelowTest(r) ==
    IF commentary_id(r.over, r.text) \in seen_commentaries THEN "seen"
    ELSE IF extract_result(r.text) = "event" \/ r.over = NA THEN "filtered"
    ELSE "admitted"

\* Outcome with line 180 testing the over text only
Outcome_NoEventTest(r) ==
    IF commentary_id(r.over, r.text) \in seen_commentaries THEN "seen"
    ELSE IF r.over = NA THEN "filtered"
    ELSE IF over_to_float(r.over) > highest_over_seen THEN "admitted"
    ELSE IF over_to_float(r.over) < highest_over_seen THEN "below"
    ELSE "admitted"

\* lines 176-186: what the loop body does with the pair r in the current state
Outcome(r) ==
    IF commentary_id(r.over, r.text) \in seen_commentaries THEN "seen"
    ELSE IF extract_result(r.text) = "event" \/ r.over = NA THEN "filtered"
    ELSE IF over_to_float(r.over) > highest_over_seen THEN "admitted"
    ELSE IF over_to_float(r.over) < highest_over_seen THEN "below"
    ELSE "admitted"

\* Raised without the assignment of line 184
Raised_Never(r) == highest_over_seen

\* lines 183-184
Raised(r) ==
    IF over_to_float(r.over) > highest_over_seen
    THEN over_to_float(r.over) ELSE highest_over_seen

\* lines 170-194: one iteration of the loop over the paired rows
EvaluateRow ==
    /\ pc = "scan"
    /\ row <= Len(doc)
    /\ LET r == doc[row]
           o == Outcome(r)
       IN  /\ lastEval' = [valid |-> TRUE, row |-> r, outcome |-> o,
                            cycle |-> cycle,
                            again |-> /\ lastEval.valid
                                      /\ lastEval.row = r
                                      /\ lastEval.outcome = "admitted"]
           /\ IF o = "admitted"
              THEN /\ highest_over_seen' = Raised(r)
                   /\ new_commentaries' = Append(new_commentaries,
                          [over |-> r.over, commentary |-> r.text,
                           result |-> extract_result(r.text)])
                   /\ seen_commentaries' =
                          seen_commentaries \cup {commentary_id(r.over, r.text)}
                   /\ new_commentary_found' = TRUE
                   /\ admittedLog' = Append(admittedLog,
                          [over |-> r.over, text |-> r.text, cycle |-> cycle])
              ELSE UNCHANGED <<highest_over_seen, new_commentaries,
                               seen_commentaries, new_commentary_found,
                               admittedLog>>
    /\ row' = row + 1
    /\ UNCHANGED <<pc, cycle, fetched, discord_enabled, doc, last_sent_over, jobs,
                   sentLog, prev, repeat>>
    /\ UNCHANGED <<timeVars, sendVars, classify>>

\* Latest taking the first new commentary instead of the maximal one
Latest_First(cs) == cs[1]

\* line 196: max(new_commentaries, key=...) returns the first maximal element
Latest(cs) ==
    cs[CHOOSE i \in 1..Len(cs) :
          /\ \A j \in 1..Len(cs) : over_to_float(cs[j].over) <= over_to_float(cs[i].over)
          /\ \A j \in 1..(i - 1) : over_to_float(cs[j].over) < over_to_float(cs[i].over)]

\* line 195
HasNew == new_commentary_found /\ new_commentaries # <<>>

\* ShouldSend without the comparison of line 201
ShouldSend_Always == HasNew

\* line 201
ShouldSend == HasNew /\ last_sent_over # Some(Latest(new_commentaries).over)

\* line 203: the over and the result of the message (the score is not modelled)
Message(c) == [over |-> c.over, result |-> c.result]

\* lines 195-205: the rows are done; submit the notification job if due
Notify ==
    /\ pc = "scan"
    /\ row > Len(doc)
    /\ IF ShouldSend /\ discord_enabled
       THEN /\ jobs' = jobs \cup {Message(Latest(new_commentaries))}
            /\ sentLog' = Append(sentLog,
                   [over |-> Latest(new_commentaries).over,
                    text |-> Latest(new_commentaries).commentary,
                    cycle |-> cycle])
       ELSE UNCHANGED <<jobs, sentLog>>
    /\ pc' = IF ShouldSend THEN "exit" ELSE "cap"
    /\ UNCHANGED <<cycle, fetched, discord_enabled, doc, row, seen_commentaries,
                   highest_over_seen, last_sent_over, new_commentaries,
                   new_commentary_found, admittedLog, lastEval, prev, repeat>>
    /\ UNCHANGED <<timeVars, sendVars, classify>>

\* line 204: leaving the with block calls executor.shutdown(wait=True)
ExecutorIdle == jobs = {}

\* ExecutorExit with line 206 inside the `if discord_enabled:` block
ExecutorExit_OnlyWhenEnabled ==
    /\ pc = "exit"
    /\ ExecutorIdle
    /\ last_sent_over' = IF discord_enabled
                          THEN Some(Latest(new_commentaries).over)
                          ELSE last_sent_over
    /\ pc' = "cap"
    /\ UNCHANGED <<cycle, fetched, discord_enabled, doc, row, seen_commentaries,
                   highest_over_seen, new_commentaries, new_commentary_found,
                   jobs, admittedLog, sentLog, lastEval, prev, repeat>>
    /\ UNCHANGED <<timeVars, sendVars, classify>>

\* lines 204-206: the with block is left, then last_sent_over is set
ExecutorExit ==
    /\ pc = "exit"
    /\ ExecutorIdle
    /\ last_sent_over' = Some(Latest(new_commentaries).over)
    /\ pc' = "cap"
    /\ UNCHANGED <<cycle, fetched, discord_enabled, doc, row, seen_commentaries,
                   highest_over_seen, new_commentaries, new_commentary_found,
                   jobs, admittedLog, sentLog, lastEval, prev, repeat>>
    /\ UNCHANGED <<timeVars, sendVars, classify>>

\* lines 23-52: the worker thread runs send_to_discord to its return
SendToDiscord ==
    /\ \E m \in jobs : jobs' = jobs \ {m}
    /\ UNCHANGED <<pc, cycle, fetched, discord_enabled, doc, row, seen_commentaries,
                   highest_over_seen, last_sent_over, new_commentaries,
                   new_commentary_found, admittedLog, sentLog, lastEval,
                   prev, repeat>>
    /\ UNCHANGED <<timeVars, sendVars, classify>>

\* line 209
CapLimit == 1000
\* line 210
CapKeep == 500

\* OverCap with >= for >
OverCap_AtLimit(s) == Cardinality(s) >= CapLimit

\* line 209
OverCap(s) == Cardinality(s) > CapLimit

\* keys of the rows a page can hold
FedKeys == {commentary_id(r.over, r.text) : r \in Rows}

\* rows admitted before the modelled cycles: distinct commentaries of over "1"
Earlier(n) == [over |-> O1, text |-> <<"four", ToString(n)>>]
EarlierKeys(n) == {commentary_id(Earlier(i).over, Earlier(i).text) : i \in 1..n}

\* line 210: set(list(s)[-500:]).  The list order of a set is not specified,
\* so any 500 keys may be the ones kept: every choice among the keys a page
\* can hold again, filled up with keys of earlier rows
Retained(s) ==
    LET fed == s \cap FedKeys
        cand == {t \cup EarlierKeys(CapKeep - Cardinality(t)) : t \in SUBSET fed}
    IN  {k \in cand : k \subseteq s /\ Cardinality(k) = CapKeep}

\* lines 207-210: the end of the iteration
CapSeen ==
    /\ pc = "cap"
    /\ \E kept \in (IF OverCap(seen_commentaries)
                    THEN Retained(seen_commentaries)
                    ELSE {seen_commentaries}) :
          /\ seen_commentaries' = kept
          /\ prev' = [ok |-> TRUE, doc |-> doc,
                      evicted |-> kept # seen_commentaries]
          /\ lastEval' = IF kept # seen_commentaries THEN NoEval ELSE lastEval
    /\ pc' = "fetch"
    /\ UNCHANGED <<cycle, fetched, discord_enabled, doc, row, highest_over_seen,
                   last_sent_over, new_commentaries, new_commentary_found,
                   jobs, admittedLog, sentLog, repeat>>
    /\ UNCHANGED <<timeVars, sendVars, classify>>

Next ==
    \/ FetchFail
    \/ FetchOk
    \/ FetchUnchanged
    \/ EvaluateRow
    \/ Notify
    \/ ExecutorExit
    \/ SendToDiscord
    \/ CapSeen

Spec == Init /\ [][Next]_vars

\* a run that has already admitted 1000 commentaries of over "1", one per
\* cycle, the first of them [1, FOUR], with the notifier enabled
InitFull ==
    /\ pc = "fetch"
    /\ cycle = 0
    /\ fetched = 0
    /\ discord_enabled = TRUE
    /\ doc = <<>>
    /\ row = 1
    /\ \E n \in {CapLimit - 1} :
          /\ seen_commentaries =
                 {commentary_id(O1, <<"FOUR">>)} \cup EarlierKeys(n)
          /\ admittedLog =
                 [i \in 1..(n + 1) |->
                     IF i = 1 THEN [over |-> O1, text |-> <<"FOUR">>, cycle |-> 0]
                     ELSE [over |-> O1, text |-> Earlier(i - 1).text, cycle |-> 0]]
    /\ highest_over_seen = over_to_float(O1)
    /\ last_sent_over = Some(O1)
    /\ new_commentaries = <<>>
    /\ new_commentary_found = FALSE
    /\ jobs = {}
    /\ sentLog = <<[over |-> O1, text |-> <<"FOUR">>, cycle |-> 0]>>
    /\ lastEval = NoEval
    /\ prev = NoCycle
    /\ repeat = FALSE
    /\ TimeIdle
    /\ Configured
    /\ SendIdle
    /\ classify = NoCall

SpecFull == InitFull /\ [][Next]_vars

\* ------------------------------------------- the loop with clock and worker
\* seconds a request of fetch_page may take
MaxDelay == 1
Durations == 0..MaxDelay

\* the pages the site serves in the timed runs
LoopPages ==
    { <<>>,
      <<[over |-> O1,  text |-> <<"FOUR">>]>>,
      <<[over |-> O1d, text |-> <<"FOUR">>]>>,
      <<[over |-> OX,  text |-> <<"wide">>]>> }

\* what requests.get and raise_for_status of lines 92-93 can come to: a
\* RequestException, a response with an empty body, a response with a page
GetOutcomes ==
    {[ok |-> FALSE, empty |-> TRUE, page |-> <<>>],
     [ok |-> TRUE, empty |-> TRUE, page |-> <<>>]}
    \cup {[ok |-> TRUE, empty |-> FALSE, page |-> p] : p \in LoopPages}

\* entries of fetchLog: the request of attempt n with what it came to, and
\* the sleep of n seconds
GetEntry(g) == [op |-> "get", ok |-> g.ok, n |-> attempt, empty |-> g.empty,
                page |-> g.page]
SleepEntry(d) == [op |-> "sleep", ok |-> TRUE, n |-> d, empty |-> TRUE,
                  page |-> <<>>]

\* Wait with the interval one second short
Wait_Short(since) ==
    IF since < min_fetch_interval - 1 THEN min_fetch_interval - 1 - since ELSE 0

\* lines 126-128: the seconds main() sleeps before it fetches
Wait(since) ==
    IF since < min_fetch_interval THEN min_fetch_interval - since ELSE 0

\* lines 125-131: throttle, stamp last_fetch_time, call fetch_page (lines 88-90)
Throttle ==
    /\ pc = "fetch"
    /\ cycle < MaxCycles
    /\ LET since == now - last_fetch_time
       IN  /\ now' = now + Wait(since)
           /\ last_fetch_time' = now + Wait(since)
           /\ throttled' = [valid |-> TRUE, since |-> since, slept |-> Wait(since)]
    /\ cycle' = cycle + 1
    /\ attempt' = 0
    /\ retry_delay' = FirstRetryDelay
    /\ fetchLog' = <<>>
    /\ pc' = "request"
    /\ UNCHANGED <<fetched, discord_enabled, doc, row, seen_commentaries,
                   highest_over_seen, last_sent_over, new_commentaries,
                   new_commentary_found, jobs, admittedLog, sentLog, lastEval,
                   prev, repeat, stopped_by, sendVars, classify>>

\* GiveUp after two attempts
GiveUp_Early == attempt >= max_retries - 2

\* line 96 negated: this was the last attempt
GiveUp == ~(attempt < max_retries - 1)

\* lines 91-102 and 132-165: one attempt of fetch_page.  A response ends the
\* call: an empty body is no page for line 132, a page is parsed and paired
\* up.  A RequestException leads to the backoff or ends the call with None
Request ==
    /\ pc = "request"
    /\ \E g \in GetOutcomes, d \in Durations :
          /\ now' = now + d
          /\ fetchLog' = Append(fetchLog, GetEntry(g))
          /\ IF g.ok /\ ~g.empty
             THEN /\ doc' = g.page
                  /\ repeat' = (prev.ok /\ ~prev.evicted /\ prev.doc = g.page)
                  /\ row' = 1
                  /\ new_commentaries' = <<>>
                  /\ new_commentary_found' = FALSE
                  /\ pc' = "scan"
             ELSE /\ pc' = IF g.ok \/ GiveUp THEN "nopage" ELSE "backoff"
                  /\ UNCHANGED <<doc, repeat, row, new_commentaries,
                                 new_commentary_found>>
    /\ UNCHANGED <<cycle, fetched, discord_enabled, seen_commentaries,
                   highest_over_seen, last_sent_over, jobs, admittedLog,
                   sentLog, lastEval, prev, last_fetch_time, attempt,
                   retry_delay, throttled, stopped_by, sendVars, classify>>

\* lines 97-98 and 90: sleep, double the delay, next attempt
Backoff ==
    /\ pc = "backoff"
    /\ now' = now + retry_delay
    /\ fetchLog' = Append(fetchLog, SleepEntry(retry_delay))
    /\ retry_delay' = retry_delay * 2
    /\ attempt' = attempt + 1
    /\ pc' = "request"
    /\ UNCHANGED <<cycle, fetched, discord_enabled, doc, row, seen_commentaries,
                   highest_over_seen, last_sent_over, new_commentaries,
                   new_commentary_found, jobs, admittedLog, sentLog, lastEval,
                   prev, repeat, last_fetch_time, throttled, stopped_by,
                   sendVars, classify>>

\* SkipCycle without the sleep of line 134
SkipCycle_NoSleep ==
    /\ pc = "nopage"
    /\ prev' = NoCycle
    /\ repeat' = FALSE
    /\ pc' = "fetch"
    /\ UNCHANGED <<cycle, fetched, discord_enabled, doc, row, seen_commentaries,
                   highest_over_seen, last_sent_over, new_commentaries,
                   new_commentary_found, jobs, admittedLog, sentLog, lastEval,
                   timeVars, sendVars, classify>>

\* lines 132-135: no page; sleep 5 and continue
SkipCycle ==
    /\ pc = "nopage"
    /\ now' = now + FailureSleep
    /\ prev' = NoCycle
    /\ repeat' = FALSE
    /\ pc' = "fetch"
    /\ UNCHANGED <<cycle, fetched, discord_enabled, doc, row, seen_commentaries,
                   highest_over_seen, last_sent_over, new_commentaries,
                   new_commentary_found, jobs, admittedLog, sentLog, lastEval,
                   last_fetch_time, attempt, retry_delay, fetchLog, throttled,
                   stopped_by, sendVars, classify>>

\* lines 211-212 and 215-216: Ctrl-C at any point of the loop
Interrupt ==
    /\ pc # "stopped"
    /\ pc' = "stopped"
    /\ stopped_by' = "interrupt"
    /\ UNCHANGED <<cycle, fetched, discord_enabled, doc, row, seen_commentaries,
                   highest_over_seen, last_sent_over, new_commentaries,
                   new_commentary_found, jobs, admittedLog, sentLog, lastEval,
                   prev, repeat, now, last_fetch_time, attempt, retry_delay,
                   fetchLog, throttled, sendVars, classify>>

\* lines 213-216: any other exception raised at any point of the loop
Fault ==
    /\ pc # "stopped"
    /\ pc' = "stopped"
    /\ stopped_by' = "fault"
    /\ UNCHANGED <<cycle, fetched, discord_enabled, doc, row, seen_commentaries,
                   highest_over_seen, last_sent_over, new_commentaries,
                   new_commentary_found, jobs, admittedLog, sentLog, lastEval,
                   prev, repeat, now, last_fetch_time, attempt, retry_delay,
                   fetchLog, throttled, sendVars, classify>>

\* ------------------------------------------------------- send_to_discord
\* `not token`, `not channel_ids`
Falsy(t) == t = <<>>
NoChannels(c) == IF c.kind = "str" THEN c.str = <<>> ELSE c.list = <<>>

\* lines 27-28: a single str becomes a list of one
Targets(c) == IF c.kind = "str" THEN <<c.str>> ELSE c.list

\* what requests.post of line 39 can come to: a status code or an exception
PostOutcomes ==
    {[raised |-> FALSE, status_code |-> n] : n \in {200, 201, 204, 404}}
    \cup {[raised |-> TRUE, status_code |-> 0]}

\* Delivered counting every response that is not an exception
Delivered_AnyStatus(o) == ~o.raised

\* line 44
Delivered(o) == ~o.raised /\ o.status_code \in {200, 201}

\* lines 24-36: the worker thread takes a submitted call; without a token or
\* without channels it returns False at once
SendStart ==
    /\ sending = None
    /\ \E m \in jobs :
          IF Falsy(token) \/ NoChannels(channel_ids)
          THEN /\ jobs' = jobs \ {m}
               /\ returned' = Append(returned, [over |-> m.over, value |-> FALSE])
               /\ UNCHANGED <<sending, channel, success, posted>>
          ELSE /\ sending' = Some(m)
               /\ channel' = 1
               /\ success' = FALSE
               /\ posted' = <<>>
               /\ UNCHANGED <<jobs, returned>>
    /\ UNCHANGED <<pc, cycle, fetched, discord_enabled, doc, row, seen_commentaries,
                   highest_over_seen, last_sent_over, new_commentaries,
                   new_commentary_found, admittedLog, sentLog, lastEval,
                   prev, repeat, timeVars, token, channel_ids, classify>>

\* lines 37-51: one iteration of the loop over the channels
Post ==
    /\ sending # None
    /\ channel <= Len(Targets(channel_ids))
    /\ \E o \in PostOutcomes :
          /\ posted' = Append(posted, [to |-> Targets(channel_ids)[channel],
                                       outcome |-> o])
          /\ success' = (success \/ Delivered(o))
    /\ channel' = channel + 1
    /\ UNCHANGED <<pc, cycle, fetched, discord_enabled, doc, row, seen_commentaries,
                   highest_over_seen, last_sent_over, new_commentaries,
                   new_commentary_found, jobs, admittedLog, sentLog, lastEval,
                   prev, repeat, timeVars, token, channel_ids, sending,
                   returned, classify>>

\* line 52: the call returns success and the worker thread is free again
SendReturn ==
    /\ sending # None
    /\ channel > Len(Targets(channel_ids))
    /\ jobs' = jobs \ {sending[1]}
    /\ returned' = Append(returned, [over |-> sending[1].over, value |-> success])
    /\ sending' = None
    /\ channel' = 1
    /\ success' = FALSE
    /\ posted' = <<>>
    /\ UNCHANGED <<pc, cycle, fetched, discord_enabled, doc, row, seen_commentaries,
                   highest_over_seen, last_sent_over, new_commentaries,
                   new_commentary_found, admittedLog, sentLog, lastEval,
                   prev, repeat, timeVars, token, channel_ids, classify>>

\* the loop with its clock, the throttle and the attempts of fetch_page; the
\* worker thread runs each submitted call to its return in one step
NextTimed ==
    \/ Throttle
    \/ Request
    \/ Backoff
    \/ SkipCycle
    \/ EvaluateRow
    \/ Notify
    \/ ExecutorExit
    \/ SendToDiscord
    \/ CapSeen

SpecTimed == Init /\ [][NextTimed]_vars

\* fetch_page returned one of the pages of the timed runs
FetchPage ==
    \E d \in LoopPages :
        /\ Fetched(d)
        /\ UNCHANGED fetched

\* the loop with the steps of the worker thread and the two ways main() ends;
\* fetch_page is one step and the clock is left out
NextWorker ==
    \/ FetchFail
    \/ FetchPage
    \/ EvaluateRow
    \/ Notify
    \/ ExecutorExit
    \/ CapSeen
    \/ SendStart
    \/ Post
    \/ SendReturn
    \/ Interrupt
    \/ Fault

\* channels in a channel_ids list
MaxChannels == 2

Tokens == {<<>>, <<"t">>}

\* the list of k channels, the two channels in turn
Channels(k) == [i \in 1..k |-> IF i % 2 = 1 THEN ChanA ELSE ChanB]

\* the channel_ids values of a config: lists of channels, the empty str and
\* a str of two characters
ChannelConfigs ==
    {ListOf(Channels(k)) : k \in 0..MaxChannels}
    \cup {StrOf(<<>>), StrOf(<<"7", "8">>)}

\* the notifier is enabled, with any token and any channels
InitWorker ==
    /\ Start
    /\ discord_enabled
    /\ token \in Tokens
    /\ channel_ids \in ChannelConfigs
    /\ classify = NoCall

SpecWorker == InitWorker /\ [][NextWorker]_vars

\* the steps of main()'s thread and of the worker thread
LoopStep == FetchFail \/ FetchPage \/ EvaluateRow \/ Notify \/ ExecutorExit \/ CapSeen
WorkerStep == SendStart \/ Post \/ SendReturn

\* both threads are scheduled, and every requests.post returns or raises;
\* nothing makes an interrupt or a fault happen
SpecWorkerFair ==
    /\ InitWorker
    /\ [][NextWorker]_vars
    /\ WF_vars(LoopStep)
    /\ WF_vars(WorkerStep)

\* ------------------------------------------------- extract_result alone
\* cells of a commentary text handed to extract_result
MaxWords == 2

ClassifyCells ==
    {"_", "hello", "wicket", "OUT", "about", "no run", "1 run", "2 runs",
     "3 runs", "FOUR", "four", "4 runs", "SIX", "six", "6 runs", "wide",
     "no ball", "bye", "leg bye"}

ClassifyTexts == UNION {[1..k -> ClassifyCells] : k \in 0..MaxWords}

\* a call of extract_result with any of the texts
InitClassify ==
    /\ Start
    /\ Configured
    /\ classify \in {[text |-> t, result |-> "", done |-> FALSE] : t \in ClassifyTexts}

\* lines 54-79: the call returns
ExtractResult ==
    /\ ~classify.done
    /\ classify' = [classify EXCEPT !.result = extract_result(classify.text),
                                    !.done = TRUE]
    /\ UNCHANGED <<pc, cycle, fetched, discord_enabled, doc, row, seen_commentaries,
                   highest_over_seen, last_sent_over, new_commentaries,
                   new_commentary_found, jobs, admittedLog, sentLog, lastEval,
                   prev, repeat, timeVars, sendVars>>

NextClassify == ExtractResult

SpecClassify == InitClassify /\ [][NextClassify]_vars

\* ----------------------------------------------------------------- claims

\* a notification job has been submitted and has not returned
InFlight == jobs # {}

\* C1: delivery is fire-and-forget: while a notification job is in flight the
\* poll loop is never held up by it, its own next step (leaving the dispatch
\* and going on to the next cycle's fetch) can always be taken
C1_LoopNeverWaitsForJob ==
    (InFlight /\ pc = "exit") => ENABLED ExecutorExit

\* the entries of a log made in cycle c
InCycle(log, c) == SelectSeq(log, LAMBDA e : e.cycle = c)

\* the same event: the same over text and the same commentary text
SameEvent(a, b) == a.over = b.over /\ a.text = b.text

Times(log, e, c) ==
    Cardinality({i \in DOMAIN log : SameEvent(log[i], e) /\ log[i].cycle = c})

Position(e) == over_to_float(e.over)

\* the first entry of maximal position of a non-empty log
FirstMax(log) ==
    log[CHOOSE i \in DOMAIN log :
           /\ \A j \in DOMAIN log : Position(log[j]) <= Position(log[i])
           /\ \A j \in 1..(i - 1) : Position(log[j]) < Position(log[i])]

\* main() is about to evaluate the pair doc[row]
Evaluating == pc = "scan" /\ row <= Len(doc)

\* C2 as stated: between cycles, with the notifier enabled, every event
\* admitted so far has been forwarded to the notifier exactly once
C2_EveryAdmittedForwardedOnce ==
    (pc = "fetch" /\ discord_enabled) =>
        \A i \in DOMAIN admittedLog :
            Cardinality({j \in DOMAIN sentLog :
                            SameEvent(sentLog[j], admittedLog[i])}) = 1

\* what the step that ends a cycle's scan forwards
C2_Forwarded ==
    LET adm == InCycle(admittedLog, cycle)
    IN  IF /\ discord_enabled
           /\ adm # <<>>
           /\ last_sent_over # Some(FirstMax(adm).over)
        THEN <<FirstMax(adm)>>
        ELSE <<>>

\* C2 as amended: an event is forwarded only in the cycle that admits it and
\* at most once per admission; the step that ends a cycle's scan forwards the
\* first event of maximal position among those the cycle admitted when the
\* notifier is enabled and that event's over text differs from
\* last_sent_over, and forwards nothing otherwise; no other step forwards
C2_ForwardsCycleMaximumOnly ==
    [][ /\ sentLog' = IF pc = "scan" /\ pc' # "scan"
                      THEN sentLog \o C2_Forwarded
                      ELSE sentLog
        /\ \A j \in DOMAIN sentLog' :
              Times(sentLog', sentLog'[j], sentLog'[j].cycle)
                 <= Times(admittedLog', sentLog'[j], sentLog'[j].cycle) ]_vars

\* C2 witness: a cycle has admitted two events and forwarded one of them
C2_Witness ==
    /\ pc = "cap"
    /\ Len(InCycle(admittedLog, cycle)) = 2
    /\ Len(InCycle(sentLog, cycle)) = 1

\* C3 as stated: a notification is dispatched only if the numeric position of
\* the cycle's maximum admitted event differs from the numeric position held
\* in last_sent_over (at pc = "exit" the job of this cycle has been submitted
\* and last_sent_over still holds its value from before the dispatch)
C3_GatedOnNumericPosition ==
    (pc = "exit" /\ discord_enabled /\ last_sent_over # None) =>
        over_to_float(last_sent_over[1]) # Position(sentLog[Len(sentLog)])

\* C4: a cycle dispatches at most one notification, and the one it dispatches
\* is for an event admitted in that cycle whose position is the maximum over
\* the events admitted in that cycle
C4_AtMostOneForCycleMaximum ==
    \A c \in 1..cycle :
        /\ Len(InCycle(sentLog, c)) <= 1
        /\ \A j \in DOMAIN sentLog :
              sentLog[j].cycle = c =>
                 /\ Times(admittedLog, sentLog[j], c) >= 1
                 /\ \A i \in DOMAIN admittedLog :
                       admittedLog[i].cycle = c =>
                          Position(admittedLog[i]) <= Position(sentLog[j])

\* C4 witness: a cycle admitted two events of the same, maximal position and
\* dispatched one notification
C4_Witness ==
    LET adm == InCycle(admittedLog, cycle)
    IN  /\ pc = "cap"
        /\ Len(adm) = 2
        /\ Position(adm[1]) = Position(adm[2])
        /\ Len(InCycle(sentLog, cycle)) = 1

\* C5 as stated: an event whose over text does not parse as a number is never
\* admitted: none is in the new commentaries, none was admitted or notified
C5_NonNumericNeverAdmitted ==
    /\ \A i \in DOMAIN admittedLog : IsNumber(admittedLog[i].over)
    /\ \A i \in DOMAIN new_commentaries : IsNumber(new_commentaries[i].over)
    /\ \A i \in DOMAIN sentLog : IsNumber(sentLog[i].over)

NonDecreasing(log) ==
    \A i \in 1..(Len(log) - 1) : Position(log[i]) <= Position(log[i + 1])

\* C6: the positions of the admitted events are non-decreasing in admission
\* order, and evaluating an event whose parsed position is below
\* highest_over_seen admits nothing
C6_MonotonicAdmission ==
    [][ /\ NonDecreasing(admittedLog')
        /\ (Evaluating /\ Position(doc[row]) < highest_over_seen) =>
              UNCHANGED <<new_commentaries, seen_commentaries, admittedLog,
                          highest_over_seen>> ]_vars

\* C6 witness: two events were admitted at rising positions and an event
\* below the watermark has just been skipped
C6_Witness ==
    /\ Len(admittedLog) >= 2
    /\ Position(admittedLog[1]) < Position(admittedLog[Len(admittedLog)])
    /\ lastEval.valid
    /\ lastEval.outcome = "below"
    /\ Position(lastEval.row) < highest_over_seen

\* C7: when the pair just admitted is evaluated again, with no eviction in
\* between, the first evaluation has put its key into seen_commentaries and
\* the second one admits nothing
C7_SecondEvaluationSkipped ==
    [][ (/\ Evaluating
         /\ lastEval.valid
         /\ lastEval.outcome = "admitted"
         /\ lastEval.row = doc[row]) =>
            /\ commentary_id(doc[row].over, doc[row].text) \in seen_commentaries
            /\ Times(admittedLog, doc[row], lastEval.cycle) = 1
            /\ UNCHANGED <<new_commentaries, seen_commentaries, admittedLog,
                           highest_over_seen>> ]_vars

\* C7 witness: the pair admitted by the previous evaluation was evaluated
\* again and skipped as seen
C7_Witness ==
    /\ lastEval.valid
    /\ lastEval.again
    /\ lastEval.outcome = "seen"

\* C8: a successful cycle over the document of the successful cycle just
\* before it (no eviction in between) admits nothing, dispatches nothing and
\* leaves seen_commentaries, highest_over_seen and last_sent_over as they are
C8_RepeatedDocument ==
    [][ (repeat /\ pc # "fetch") =>
            UNCHANGED <<seen_commentaries, highest_over_seen, last_sent_over,
                        admittedLog, sentLog, new_commentaries, jobs>> ]_vars

\* C8 witness: the second of two cycles over the same document is complete,
\* and the first one admitted an event of that document
C8_Witness ==
    /\ repeat
    /\ pc = "fetch"
    /\ prev.ok
    /\ \E i \in DOMAIN doc : Times(admittedLog, doc[i], cycle - 1) = 1

\* the entries a step appends to a log are not generic
NoGenericAdded(old, new) ==
    \A i \in (Len(old) + 1)..Len(new) : extract_result(new[i].text) # "event"

C10_BoundedSeen ==
    /\ [](pc = "fetch" => Cardinality(seen_commentaries) <= CapLimit)
    /\ [][ pc = "cap" =>
              /\ pc' = "fetch"
              /\ IF Cardinality(seen_commentaries) > CapLimit
                 THEN /\ Cardinality(seen_commentaries') <= CapKeep
                      /\ seen_commentaries' \subseteq seen_commentaries
                 ELSE seen_commentaries' = seen_commentaries ]_vars

\* C10 witness: a cycle ended with more than 1000 keys and 500 were kept
C10_Witness ==
    /\ pc = "fetch"
    /\ prev.ok
    /\ prev.evicted
    /\ Cardinality(seen_commentaries) = CapKeep

\* the last entry of a non-empty log
Last(log) == log[Len(log)]

\* the requests and sleeps of a fetch_page call none of whose requests succeeds
Schedule ==
    <<[op |-> "get", n |-> 0], [op |-> "sleep", n |-> 2],
      [op |-> "get", n |-> 1], [op |-> "sleep", n |-> 4],
      [op |-> "get", n |-> 2]>>

\* C11: one fetch makes at most three attempts and returns the content of the
\* first successful one without a further attempt; it sleeps 2 after the first
\* failed attempt and 4 after the second and not at all after the third; after
\* three failures the call returns its failure value to the loop
C11_FetchRetries ==
    /\ Len(fetchLog) <= Len(Schedule)
    /\ \A i \in DOMAIN fetchLog :
          /\ fetchLog[i].op = Schedule[i].op
          /\ fetchLog[i].n = Schedule[i].n
          /\ (fetchLog[i].op = "get" /\ fetchLog[i].ok) => i = Len(fetchLog)
    /\ pc = "request" => (fetchLog = <<>> \/ Last(fetchLog).op = "sleep")
    /\ (fetchLog # <<>> /\ Last(fetchLog).op = "get") =>
          IF Last(fetchLog).ok
          THEN IF Last(fetchLog).empty
               THEN pc \in {"nopage", "fetch"}
               ELSE pc \in {"scan", "exit", "cap", "fetch"}
                    /\ doc = Last(fetchLog).page
          ELSE IF Last(fetchLog).n < 2
               THEN pc = "backoff"
               ELSE pc \in {"nopage", "fetch"}

\* fetch_page has made three requests, all failed, and has returned None
C11_Witness ==
    /\ Len(fetchLog) = 5
    /\ ~Last(fetchLog).ok
    /\ pc = "nopage"

\* the tracker state of main() and the two logs of what it admitted and sent
tracker == <<seen_commentaries, highest_over_seen, last_sent_over>>
effects == <<tracker, admittedLog, sentLog, jobs>>

\* main() is between the start of a cycle and the outcome of its fetch
Fetching == pc \in {"fetch", "request", "backoff", "nopage"}

\* C12: a cycle whose fetch fails is skipped: from the start of the cycle to
\* the end of the skip nothing is extracted, admitted, notified or evicted and
\* seen_commentaries, highest_over_seen and last_sent_over keep their values;
\* the skip itself sleeps 5 seconds more and goes back to the top of the loop,
\* where the next cycle can start
C12_FailedCycleSkipped ==
    /\ [](pc = "nopage" => ENABLED SkipCycle)
    /\ []((pc = "fetch" /\ cycle < MaxCycles) => ENABLED Throttle)
    /\ [][Fetching => UNCHANGED effects]_vars
    /\ [][pc = "nopage" =>
            /\ now' = now + 5
            /\ pc' = "fetch"
            /\ UNCHANGED <<doc, row, new_commentaries, new_commentary_found>>]_vars

\* the second cycle's fetch failed after the first cycle had admitted a row;
\* the cycle has been skipped
C12_Witness ==
    /\ pc = "fetch"
    /\ cycle = 2
    /\ seen_commentaries # {}
    /\ fetchLog # <<>>
    /\ ~Last(fetchLog).ok
    /\ Len(fetchLog) = 5

\* the tests of the classifier in their priority order, with their categories
Priority ==
    <<[pats |-> {"wicket", "out"}, cat |-> "wicket"],
      [pats |-> {"no run"}, cat |-> "dot"],
      [pats |-> {"1 run"}, cat |-> "1 run"],
      [pats |-> {"2 run"}, cat |-> "2 runs"],
      [pats |-> {"3 run"}, cat |-> "3 runs"],
      [pats |-> {"four", "4 runs"}, cat |-> "4"],
      [pats |-> {"six", "6 runs"}, cat |-> "6"],
      [pats |-> {"wide"}, cat |-> "wide"],
      [pats |-> {"no ball"}, cat |-> "no ball"],
      [pats |-> {"bye"}, cat |-> "bye"],
      [pats |-> {"leg bye"}, cat |-> "leg bye"]>>

\* the tests that match the lower-cased text
Matching(t) ==
    {i \in DOMAIN Priority : \E p \in Priority[i].pats : In(p, Lower(t))}

\* the category of the first matching test, "event" when there is none
FirstMatch(t) ==
    IF Matching(t) = {} THEN "event"
    ELSE Priority[CHOOSE i \in Matching(t) : \A j \in Matching(t) : i <= j].cat

\* C13: extract_result returns the category of the first matching test of the
\* priority order; a text that contains "leg bye" gets "bye" or the category
\* of an earlier test, and "leg bye" is never returned
C13_FirstMatchWins ==
    classify.done =>
        /\ classify.result = FirstMatch(classify.text)
        /\ classify.result # "leg bye"
        /\ In("leg bye", Lower(classify.text)) =>
              classify.result \in {Priority[i].cat : i \in 1..10}

\* extract_result has returned "bye" for a text that contains "leg bye"
C13_Witness ==
    /\ classify.done
    /\ In("leg bye", Lower(classify.text))
    /\ classify.result = "bye"

\* the maximum position among the rows admitted so far, -1 when there is none
MaxAdmitted ==
    IF admittedLog = <<>> THEN NoOver ELSE Position(FirstMax(admittedLog))

\* C14: highest_over_seen never decreases, changes only in a step that admits
\* a row, and always equals the maximum position among the rows admitted so
\* far (-1 when none has been admitted); evaluating a row that is skipped as
\* seen, as generic or as below the watermark leaves it unchanged
C14_WatermarkIsMaxAdmitted ==
    /\ [](highest_over_seen = MaxAdmitted)
    /\ [][highest_over_seen' >= highest_over_seen]_vars
    /\ [][highest_over_seen' # highest_over_seen =>
             Len(admittedLog') = Len(admittedLog) + 1]_vars
    /\ [][(Evaluating /\ row' = row + 1
              /\ lastEval'.outcome \in {"seen", "filtered", "below"}) =>
             highest_over_seen' = highest_over_seen]_vars

\* rows of two positions have been admitted and a row below the watermark
\* has just been skipped
C14_Witness ==
    /\ lastEval.valid
    /\ lastEval.outcome = "below"
    /\ \E i, j \in DOMAIN admittedLog :
          Position(admittedLog[i]) < Position(admittedLog[j])
    /\ highest_over_seen = Position(FirstMax(admittedLog))

\* C15: main() stops only by an interrupt or by a fault caught at lines
\* 211-214, in a step of its own; the step that ends a fetch without a page
\* leaves the loop at its top; and whatever a cycle meets (no page, a page
\* without rows, a non-numeric over text, a notification no channel accepts)
\* the next cycle is started unless main() is stopped
C15_StopsOnlyByInterruptOrFault ==
    /\ [](pc = "stopped" <=> stopped_by \in {"interrupt", "fault"})
    /\ [][(pc # "stopped" /\ pc' = "stopped") =>
             UNCHANGED <<cycle, doc, row, tracker, jobs, sending, returned>>]_vars
    /\ [][cycle' # cycle => pc' \in {"fetch", "scan"}]_vars
    /\ \A c \in 0..(MaxCycles - 1) :
          (cycle = c) ~> (cycle = c + 1 \/ pc = "stopped")

\* a cycle has been started after a cycle whose notification every channel
\* refused
C15_Witness ==
    /\ cycle = 2
    /\ pc # "stopped"
    /\ returned # <<>>
    /\ ~returned[1].value
    /\ ~Falsy(token)
    /\ ~NoChannels(channel_ids)

\* the channels of the config, in their order
Destinations ==
    IF channel_ids.kind = "str" THEN <<channel_ids.str>> ELSE channel_ids.list

\* the post was answered with status 200 or 201
Accepted(p) == ~p.outcome.raised /\ p.outcome.status_code \in {200, 201}

\* the notifier has a token and at least one channel
Usable == token # <<>> /\ Destinations # <<>> /\ Destinations # << <<>> >>

\* C16: a send_to_discord call posts to every configured channel once, in the
\* order of the config, whatever the earlier posts came to; a status other
\* than 200 and 201 and an exception fail that post only; the call returns
\* True exactly if a post was accepted; without a token or without channels
\* it posts nothing and returns False
C16_EveryChannelOnce ==
    /\ [](sending # None =>
            /\ Usable
            /\ Len(posted) = channel - 1
            /\ Len(posted) <= Len(Destinations)
            /\ \A i \in DOMAIN posted : posted[i].to = Destinations[i]
            /\ success = (\E i \in DOMAIN posted : Accepted(posted[i])))
    /\ [](~Usable => (sending = None /\ posted = <<>>))
    /\ [][Len(returned') > Len(returned) =>
            /\ Usable => (sending # None /\ Len(posted) = Len(Destinations))
            /\ Last(returned').value =
                  (Usable /\ \E i \in DOMAIN posted : Accepted(posted[i]))]_vars

\* the call is about to return True: its first post raised an exception and
\* its second post was accepted
C16_Witness ==
    /\ sending # None
    /\ channel > Len(Destinations)
    /\ Len(posted) = 2
    /\ posted[1].outcome.raised
    /\ Accepted(posted[2])
    /\ success

\* the k-th call of send_to_discord returned False with a usable config: no
\* channel accepted the k-th notification dispatched
FailedEverywhere(k) == k \in DOMAIN returned /\ ~returned[k].value /\ Usable

\* last_sent_over is set to the over of the notification dispatched whatever
\* the call returns, and the return of the call is no step of main()
C17_AdvancedRegardless ==
    /\ [][(pc = "exit" /\ pc' \notin {"exit", "stopped"}) =>
             /\ pc' = "cap"
             /\ sentLog # <<>>
             /\ last_sent_over' = Some(Last(sentLog).over)]_vars
    /\ [][Len(returned') > Len(returned) => UNCHANGED <<pc, stopped_by, tracker>>]_vars

\* no notification is dispatched for the position of an earlier notification
\* that no channel accepted
C17_NoFurtherDispatch ==
    \A k \in DOMAIN sentLog : FailedEverywhere(k) =>
        \A j \in DOMAIN sentLog :
            j > k => Position(sentLog[j]) # Position(sentLog[k])

\* C17: a notification that no channel accepts is not retried: last_sent_over
\* is set to the over of its event whatever the delivery came to, the failure
\* is no fault of the loop, and no later cycle dispatches a notification for
\* that position
C17_FailedNotRetried == C17_AdvancedRegardless /\ []C17_NoFurtherDispatch

\* main() takes the step from the top of the loop to the first request
StartsFetch == pc = "fetch" /\ pc' = "request"

\* C18: the start of a fetch is stamped in last_fetch_time; the stamp of a
\* fetch is at least 3 seconds after the stamp of the fetch before it, also
\* after a cycle that was skipped; main() sleeps exactly up to 3 seconds after
\* the previous stamp, and not at all when 3 seconds or more have passed
C18_FetchStartsApart ==
    /\ [][StartsFetch =>
             /\ last_fetch_time' = now'
             /\ last_fetch_time' - last_fetch_time >= 3
             /\ now' = IF now - last_fetch_time >= 3 THEN now
                       ELSE last_fetch_time + 3]_vars
    /\ [][last_fetch_time' # last_fetch_time => StartsFetch]_vars

\* the second fetch has started after a sleep of less than the interval: the
\* first cycle took 1 or 2 seconds
C18_Witness ==
    /\ cycle = 2
    /\ pc = "request"
    /\ throttled.valid
    /\ throttled.slept \in {1, 2}
    /\ throttled.since + throttled.slept = 3

\* the identity key of a log entry
KeyOf(e) == commentary_id(e.over, e.text)

\* C19: no event, taken by its identity key, is the subject of more than one
\* dispatched notification of a run, also when its key has been evicted from
\* seen_commentaries by the cap and the event has been admitted again
C19_NotifiedAtMostOnce ==
    \A i, j \in DOMAIN sentLog :
        i < j => KeyOf(sentLog[i]) # KeyOf(sentLog[j])

\* C20: at the end of every cycle either no row has been admitted so far and
\* last_sent_over is None, or last_sent_over is a text whose numeric value is
\* highest_over_seen; with the notifier enabled and with it disabled
C20_LastSentAtWatermark ==
    pc = "fetch" =>
        \/ admittedLog = <<>> /\ last_sent_over = None
        \/ /\ admittedLog # <<>>
           /\ last_sent_over # None
           /\ over_to_float(last_sent_over[1]) = highest_over_seen

\* with the notifier disabled, the second cycle has ended after it raised the
\* watermark above the position of the first cycle
C20_Witness ==
    /\ pc = "fetch"
    /\ cycle = 2
    /\ ~discord_enabled
    /\ \E i, j \in DOMAIN admittedLog :
          /\ admittedLog[i].cycle = 1
          /\ admittedLog[j].cycle = 2
          /\ Position(admittedLog[i]) < Position(admittedLog[j])
    /\ over_to_float(last_sent_over[1]) = highest_over_seen

====
